---- MODULE Spec2Model ----
(***************************************************************************)
(* A model of socrata2sql's insert pipeline: socrata2sql/cli.py            *)
(* (get_sql_col, get_binding, get_connection, get_row_count, get_dataset,  *)
(* parse_row, main) and socrata2sql/parsers.py (parse_datetime,            *)
(* parse_geom, parse_str).                                                 *)
(*                                                                         *)
(* Python values are tagged records: [kind |-> "None"], [kind |-> "str",   *)
(* v |-> s], [kind |-> "dict", v |-> d], [kind |-> "list", v |-> seq].     *)
(* A Python dict is the sequence of its items [k |-> key, v |-> value] in  *)
(* insertion order, with no key twice.  A raised exception is the name of  *)
(* its class in the field "raised" of a result ("" when nothing is         *)
(* raised).                                                                *)
(***************************************************************************)
EXTENDS Integers, Sequences, FiniteSets, TLC

VARIABLES
    pc,             \* position of the running function
    raised,         \* class name of the exception that left it, "" if none
    ui_log,         \* what ui.header / ui.item printed, in order
    \* get_binding
    columns,        \* dataset_metadata['columns']
    geo,            \* the geo argument (geo_enabled of get_connection)
    record_fields,  \* the dict handed to type('SocrataRecord', ...)
    col_i,          \* number of columns the for loop has consumed
    \* parse_row
    row,            \* the raw API row
    parsed,         \* the dict parse_row builds
    row_i,          \* number of row items the for loop has consumed
    \* parse_geom
    geo_data,       \* its argument
    geo_result,     \* what it returned or raised
    \* main (insert) and its collaborators
    remote,         \* the rows the Socrata dataset holds
    page_size,      \* get_dataset's page_size
    page_num,       \* get_dataset's page_num
    more_pages,     \* get_dataset's more_pages
    api_data,       \* the page get_dataset yielded last
    num_rows,       \* what get_row_count returned
    session_new,    \* objects added to the session and not yet committed
    committed,      \* objects the final commit wrote
    calls           \* external calls issued so far with their answers, in order

bvars == <<columns, geo, record_fields, col_i>>
rvars == <<row, parsed, row_i>>
gvars == <<geo_data, geo_result>>
dvars == <<remote, page_size, page_num, more_pages, api_data, num_rows,
           session_new, committed, calls>>
vars == <<pc, raised, ui_log, bvars, rvars, gvars, dvars>>

---------------------------------------------------------------------------
(* Python values and dicts *)

PyNone == [kind |-> "None"]

PyStr(s) == [kind |-> "str", v |-> s]

PyDict(d) == [kind |-> "dict", v |-> d]

PyList(l) == [kind |-> "list", v |-> l]

Item(key, val) == [k |-> key, v |-> val]

\* key in d
DictHas(d, key) == \E i \in 1..Len(d) : d[i].k = key

\* d[key], for a key the dict has
DictGet(d, key) == d[CHOOSE i \in 1..Len(d) : d[i].k = key].v

\* d[key] = val: a key the dict has keeps its place, a new one goes last
DictSet(d, key, val) ==
    IF DictHas(d, key)
    THEN [i \in 1..Len(d) |-> IF d[i].k = key THEN Item(key, val) ELSE d[i]]
    ELSE Append(d, Item(key, val))

DictKeys(d) == {d[i].k : i \in 1..Len(d)}

\* the keys in iteration order
DictKeySeq(d) == [i \in 1..Len(d) |-> d[i].k]

\* str.startswith
StartsWith(s, prefix) ==
    Len(s) >= Len(prefix) /\ SubSeq(s, 1, Len(prefix)) = prefix

\* '%s' % v for the values the formats below are applied to
Fmt(v) == IF v.kind = "None" THEN "None" ELSE v.v

---------------------------------------------------------------------------
(* cli.py: get_sql_col *)

GeometryPoint == "Geometry(POINT,4326)"

Column(sqltype, pk) == [type |-> sqltype, primary_key |-> pk]

col_mappings ==
    [t \in {"checkbox", "url", "text", "number", "calendar_date", "point",
            "location"} |->
        CASE t = "checkbox" -> "Boolean"
          [] t = "url" -> "Text"
          [] t = "text" -> "Text"
          [] t = "number" -> "Numeric"
          [] t = "calendar_date" -> "DateTime"
          [] t = "point" -> GeometryPoint
          [] t = "location" -> GeometryPoint]

get_sql_col(col_data_type) ==
    IF col_data_type \in DOMAIN col_mappings
    THEN [raised |-> "", col |-> Column(col_mappings[col_data_type], FALSE)]
    ELSE [raised |-> "NotImplementedError",
          msg |-> "Unable to map Socrata type \"" \o col_data_type
                  \o "\" to a SQL type."]

---------------------------------------------------------------------------
(* cli.py: get_binding *)

PK == "_pk_"

ComputedPrefix == ":@computed"

\* the destination table name (-t); get_table_name is not modelled
table_name == "t"

InitialRecordFields ==
    << Item("__tablename__", PyStr(table_name)),
       Item(PK, Column("Integer", TRUE)) >>

\* BindingStep without the computed-column test of line 139
BindingStepKeepsComputed(st, col, g) ==
    LET col_name == col.fieldName
        col_type == col.dataTypeName
        r == get_sql_col(col_type)
    IN  IF col_type \in {"location", "point"} /\ g = FALSE
        THEN [st EXCEPT !.ui = Append(@, "skipped")]
        ELSE IF r.raised = "NotImplementedError"
        THEN [st EXCEPT !.ui = Append(@, r.msg)]
        ELSE [st EXCEPT !.rf = DictSet(@, col_name, r.col)]

\* one iteration of "for col in dataset_metadata['columns']" on the state
\* st = [rf |-> record_fields, ui |-> messages printed]
BindingStep(st, col, g) ==
    LET col_name == col.fieldName
        col_type == col.dataTypeName
        r == get_sql_col(col_type)
    IN  IF col_type \in {"location", "point"} /\ g = FALSE
        THEN [st EXCEPT !.ui = Append(@,
                "\"" \o col_name \o "\" is a " \o col_type \o
                " column but your database doesn't support PostGIS so it'll be skipped.")]
        ELSE IF StartsWith(col_name, ComputedPrefix)
        THEN [st EXCEPT !.ui = Append(@,
                "Ignoring computed column \"" \o col_name \o "\".")]
        ELSE IF r.raised = "NotImplementedError"
        THEN [st EXCEPT !.ui = Append(@, r.msg)]
        ELSE [st EXCEPT !.rf = DictSet(@, col_name, r.col)]

BindingHeader ==
    "Setting up new table, \"" \o table_name \o "\", from Socrata API fields"

RECURSIVE BindingLoop(_, _, _, _)
BindingLoop(st, cols, i, g) ==
    IF i > Len(cols) THEN st
    ELSE BindingLoop(BindingStep(st, cols[i], g), cols, i + 1, g)

\* the record_fields get_binding ends with, and what it printed
get_binding(cols, g) ==
    BindingLoop([rf |-> InitialRecordFields, ui |-> <<BindingHeader>>],
                cols, 1, g)

\* Binding.__mapper__.columns: the Column entries of record_fields
MapperColumns(rf) == SelectSeq(rf, LAMBDA e : e.k # "__tablename__")

---------------------------------------------------------------------------
(* parsers.py: parse_datetime *)

PyNum(lit) == [kind |-> "num", v |-> lit]

PyDateTime(y, mo, d, h, mi, sec, us) ==
    [kind |-> "datetime", v |-> <<y, mo, d, h, mi, sec, us>>]

Digits == {"0", "1", "2", "3", "4", "5", "6", "7", "8", "9"}

IsDigits(s) == Len(s) >= 1 /\ \A i \in 1..Len(s) : SubSeq(s, i, i) \in Digits

DigitVal(c) ==
    CASE c = "0" -> 0 [] c = "1" -> 1 [] c = "2" -> 2 [] c = "3" -> 3
      [] c = "4" -> 4 [] c = "5" -> 5 [] c = "6" -> 6 [] c = "7" -> 7
      [] c = "8" -> 8 [] c = "9" -> 9

RECURSIVE ToInt(_)
ToInt(s) ==
    IF Len(s) = 0 THEN 0
    ELSE ToInt(SubSeq(s, 1, Len(s) - 1)) * 10 + DigitVal(SubSeq(s, Len(s), Len(s)))

\* position of the first ch of s, 0 if there is none
IndexOf(s, ch) ==
    IF \E i \in 1..Len(s) : SubSeq(s, i, i) = ch
    THEN CHOOSE i \in 1..Len(s) :
            /\ SubSeq(s, i, i) = ch
            /\ \A j \in 1..(i - 1) : SubSeq(s, j, j) # ch
    ELSE 0

\* s cut at the first seps[1], what follows cut at the first seps[2], ...:
\* Len(seps) + 1 fields, or fewer when a separator is missing
RECURSIVE Cut(_, _)
CutAt(s, seps, i) ==
    IF i = 0 THEN <<>>
    ELSE <<SubSeq(s, 1, i - 1)>> \o Cut(SubSeq(s, i + 1, Len(s)), Tail(seps))

Cut(s, seps) ==
    IF seps = <<>> THEN <<s>> ELSE CutAt(s, seps, IndexOf(s, Head(seps)))

\* a %m, %d, %H, %M or %S field: one or two digits, the value within lo..hi
\* (so %m and %d take no "0" and no "00")
FieldOk(f, lo, hi) ==
    /\ IsDigits(f) /\ Len(f) <= 2
    /\ ToInt(f) >= lo /\ ToInt(f) <= hi

IsLeap(y) == (y % 4 = 0 /\ y % 100 # 0) \/ y % 400 = 0

DaysIn(y, mo) ==
    IF mo = 2 THEN (IF IsLeap(y) THEN 29 ELSE 28)
    ELSE IF mo \in {4, 6, 9, 11} THEN 30 ELSE 31

\* %f: one to six digits, read as a fraction of a second
Micros(f) ==
    ToInt(f) * (CASE Len(f) = 1 -> 100000 [] Len(f) = 2 -> 10000
                  [] Len(f) = 3 -> 1000 [] Len(f) = 4 -> 100
                  [] Len(f) = 5 -> 10 [] OTHER -> 1)

\* datetime(y, mo, d, h, mi, sec, us), ValueError when it is no date
MakeDateTime(y, mo, d, h, mi, sec, us) ==
    IF y < 1 \/ d > DaysIn(y, mo) \/ sec > 59
    THEN [raised |-> "ValueError"]
    ELSE [raised |-> "", value |-> PyDateTime(y, mo, d, h, mi, sec, us)]

\* the fields f of a timestamp, matched against the directives
StrptimeFields(f, fraction) ==
    IF Len(f) # (IF fraction THEN 7 ELSE 6) THEN [raised |-> "ValueError"]
    ELSE IF ~(/\ IsDigits(f[1]) /\ Len(f[1]) = 4
              /\ FieldOk(f[2], 1, 12) /\ FieldOk(f[3], 1, 31)
              /\ FieldOk(f[4], 0, 23) /\ FieldOk(f[5], 0, 59)
              /\ FieldOk(f[6], 0, 61)
              /\ (fraction => IsDigits(f[7]) /\ Len(f[7]) <= 6))
    THEN [raised |-> "ValueError"]
    ELSE MakeDateTime(ToInt(f[1]), ToInt(f[2]), ToInt(f[3]), ToInt(f[4]),
                      ToInt(f[5]), ToInt(f[6]),
                      IF fraction THEN Micros(f[7]) ELSE 0)

\* datetime.strptime(s, "%Y-%m-%dT%H:%M:%S") and, with fraction,
\* datetime.strptime(s, "%Y-%m-%dT%H:%M:%S.%f"): the text is cut at the
\* separators of the format; ValueError when it does not match
Strptime(s, fraction) ==
    StrptimeFields(
        Cut(s, IF fraction THEN <<"-", "-", "T", ":", ":", ".">>
               ELSE <<"-", "-", "T", ":", ":">>),
        fraction)

\* lines 12-14: the except clause
OrOldFormat(new, s) ==
    IF new.raised = "ValueError" THEN Strptime(s, FALSE) ELSE new

parse_datetime(str_val) ==
    IF str_val.kind = "str" /\ str_val.v = ""
    THEN [raised |-> "", value |-> PyNone]
    ELSE IF str_val.kind # "str" THEN [raised |-> "TypeError"]
    ELSE OrOldFormat(Strptime(str_val.v, TRUE), str_val.v)

---------------------------------------------------------------------------
(* parsers.py: parse_geom *)

\* sub in s, for strings
Contains(s, sub) ==
    \E i \in 1..(Len(s) - Len(sub) + 1) : SubSeq(s, i, i + Len(sub) - 1) = sub

\* key in container, for the containers the parsers meet
PyIn(key, c) ==
    CASE c.kind = "dict" -> [raised |-> "", value |-> DictHas(c.v, key)]
      [] c.kind = "str" -> [raised |-> "", value |-> Contains(c.v, key)]
      [] OTHER -> [raised |-> "TypeError"]

\* container[key] for a string key
PyGetItem(c, key) ==
    IF c.kind # "dict" THEN [raised |-> "TypeError"]
    ELSE IF ~DictHas(c.v, key) THEN [raised |-> "KeyError", key |-> key]
    ELSE [raised |-> "", value |-> DictGet(c.v, key)]

\* container[i] for the integer index i, counted from 0
PyIndex(c, i) ==
    IF c.kind # "list" THEN [raised |-> "TypeError"]
    ELSE IF i + 1 > Len(c.v) THEN [raised |-> "IndexError"]
    ELSE [raised |-> "", value |-> c.v[i + 1]]

Ewkt(a, b) == PyStr("SRID=4326;POINT(" \o Fmt(a) \o " " \o Fmt(b) \o ")")

parse_geom(g) ==
    IF g.kind = "None" THEN [raised |-> "", value |-> PyNone]
    ELSE IF PyIn("latitude", g).raised # "" THEN [raised |-> "TypeError"]
    ELSE IF PyIn("latitude", g).value /\ PyIn("longitude", g).value
    THEN LET lat == PyGetItem(g, "latitude")
             lon == PyGetItem(g, "longitude")
         IN  IF lat.raised # "" THEN lat
             ELSE IF lon.raised # "" THEN lon
             ELSE [raised |-> "", value |-> Ewkt(lat.value, lon.value)]
    ELSE IF PyIn("human_address", g).value /\ ~PyIn("latitude", g).value
    THEN [raised |-> "", value |-> PyNone]
    ELSE LET ty == PyGetItem(g, "type")
             co == PyGetItem(g, "coordinates")
             c0 == PyIndex(co.value, 0)
             c1 == PyIndex(co.value, 1)
         IN  IF ty.raised # "" THEN ty
             ELSE IF ty.value.kind = "str" /\ ty.value.v = "Point"
             THEN IF co.raised # "" THEN co
                  ELSE IF c0.raised # "" THEN c0
                  ELSE IF c1.raised # "" THEN c1
                  ELSE [raised |-> "", value |-> Ewkt(c0.value, c1.value)]
             ELSE [raised |-> "NotImplementedError",
                   msg |-> Fmt(ty.value) \o " are not yet supported"]

---------------------------------------------------------------------------
(* parsers.py: parse_str *)

RECURSIVE JsonDumps(_)
RECURSIVE JsonItems(_, _)
\* json.dumps with its default separators
JsonDumps(x) ==
    CASE x.kind = "None" -> "null"
      [] x.kind = "str" -> "\"" \o x.v \o "\""
      [] x.kind = "num" -> x.v
      [] x.kind = "dict" -> "{" \o JsonItems(x.v, 1) \o "}"
      [] x.kind = "list" -> "[" \o JsonItems(x.v, 1) \o "]"

JsonItems(d, i) ==
    IF i > Len(d) THEN ""
    ELSE (IF i > 1 THEN ", " ELSE "")
         \o (IF "k" \in DOMAIN d[i]
             THEN "\"" \o d[i].k \o "\": " \o JsonDumps(d[i].v)
             ELSE JsonDumps(d[i]))
         \o JsonItems(d, i + 1)

parse_str(raw_str) ==
    IF raw_str.kind = "dict"
    THEN IF DictHas(raw_str.v, "url")
         THEN [raised |-> "", value |-> DictGet(raw_str.v, "url")]
         ELSE [raised |-> "", value |-> PyStr(JsonDumps(raw_str))]
    ELSE [raised |-> "", value |-> raw_str]

---------------------------------------------------------------------------
(* cli.py: parse_row *)

\* type(column.type): the class of a column type
TypeClass(sqltype) == IF sqltype = GeometryPoint THEN "Geometry" ELSE sqltype

\* parsers[mapper_col_type](col_val)
ApplyParser(cls, col_val) ==
    CASE cls = "DateTime" -> parse_datetime(col_val)
      [] cls = "Geometry" -> parse_geom(col_val)
      [] cls = "Text" -> parse_str(col_val)

\* line 258: the parser's result is stored, or its exception leaves parse_row
StoreResult(st, key, r) ==
    IF r.raised # "" THEN [st EXCEPT !.raised = r.raised]
    ELSE [st EXCEPT !.parsed = DictSet(@, key, r.value)]

\* lines 257-260: a bound column, whose type class is cls
ParseBound(st, item, cls) ==
    IF cls \in {"DateTime", "Geometry", "Text"}
    THEN StoreResult(st, item.k, ApplyParser(cls, item.v))
    ELSE [st EXCEPT !.parsed = DictSet(@, item.k, item.v)]

\* ParseStep that copies the columns the binding lacks instead of dropping them
ParseStepKeepsUnbound(st, item, binding_columns) ==
    IF ~DictHas(binding_columns, item.k)
    THEN [st EXCEPT !.parsed = DictSet(@, item.k, item.v)]
    ELSE ParseBound(st, item, TypeClass(DictGet(binding_columns, item.k).type))

\* ParseStep that leaves out the columns whose raw value is null
ParseStepSkipsNull(st, item, binding_columns) ==
    IF ~DictHas(binding_columns, item.k) \/ item.v.kind = "None" THEN st
    ELSE ParseBound(st, item, TypeClass(DictGet(binding_columns, item.k).type))

\* one iteration of "for col_name, col_val in row.items()" on the state
\* st = [parsed |-> the dict so far, raised |-> the exception leaving it]
ParseStep(st, item, binding_columns) ==
    IF ~DictHas(binding_columns, item.k) THEN st
    ELSE ParseBound(st, item, TypeClass(DictGet(binding_columns, item.k).type))

RECURSIVE ParseLoop(_, _, _, _)
ParseLoop(st, r, i, binding_columns) ==
    IF i > Len(r) \/ st.raised # "" THEN st
    ELSE ParseLoop(ParseStep(st, r[i], binding_columns), r, i + 1,
                   binding_columns)

\* parse_row(row, binding): [parsed, raised]
parse_row(r, rf) ==
    ParseLoop([parsed |-> <<>>, raised |-> ""], r, 1, MapperColumns(rf))

---------------------------------------------------------------------------
(* SpecBinding: get_binding on every metadata of at most MaxCols columns *)

MaxCols == 2

FieldNames == {"a", PK, ":@computed_region_x", ":id"}

TypeNames == {"checkbox", "url", "text", "number", "calendar_date", "point",
              "location", "money"}

RemoteColumns == [fieldName : FieldNames, dataTypeName : TypeNames]

SeqsUpTo(S, n) == UNION {[1..m -> S] : m \in 0..n}

IdleB == /\ columns = <<>> /\ geo = FALSE /\ record_fields = <<>> /\ col_i = 0

IdleR == /\ row = <<>> /\ parsed = <<>> /\ row_i = 0

IdleG == /\ geo_data = PyNone /\ geo_result = PyNone

IdleD ==
    /\ remote = <<>> /\ page_size = 0 /\ page_num = 0 /\ more_pages = FALSE
    /\ api_data = <<>> /\ num_rows = 0 /\ session_new = <<>>
    /\ committed = <<>> /\ calls = <<>>

InitBinding ==
    /\ columns \in SeqsUpTo(RemoteColumns, MaxCols)
    /\ geo \in BOOLEAN
    /\ record_fields = InitialRecordFields
    /\ col_i = 0
    /\ pc = "get_binding.loop"
    /\ raised = ""
    /\ ui_log = <<BindingHeader>>
    /\ IdleR /\ IdleG /\ IdleD

\* lines 127-147: one column of the metadata
BindingColumn ==
    /\ pc = "get_binding.loop"
    /\ col_i < Len(columns)
    /\ \E st \in {BindingStep([rf |-> record_fields, ui |-> ui_log],
                                columns[col_i + 1], geo)} :
           /\ record_fields' = st.rf
           /\ ui_log' = st.ui
    /\ col_i' = col_i + 1
    /\ UNCHANGED <<pc, raised, columns, geo, rvars, gvars, dvars>>

\* line 149: the loop is over, the binding is returned
BindingReturn ==
    /\ pc = "get_binding.loop"
    /\ col_i = Len(columns)
    /\ pc' = "get_binding.returned"
    /\ UNCHANGED <<raised, ui_log, bvars, rvars, gvars, dvars>>

NextBinding == BindingColumn \/ BindingReturn

SpecBinding == InitBinding /\ [][NextBinding]_vars

---------------------------------------------------------------------------
(* SpecGeom: parse_geom on null and on every dict over the keys it reads *)

Opt(key, vals) == {<<>>} \cup {<<Item(key, x)>> : x \in vals}

GeoDicts ==
    {a \o b \o c \o d \o e :
        a \in Opt("latitude", {PyStr("41.8657001")}),
        b \in Opt("longitude", {PyStr("-87.761102")}),
        c \in Opt("human_address", {PyStr("100 Main St")}),
        d \in Opt("type", {PyStr("Point"), PyStr("Circle"), PyStr("Polygon")}),
        e \in Opt("coordinates",
                  {PyList(<<PyNum("41.8657001"), PyNum("-87.761102")>>),
                   PyList(<<PyNum("41.8657001")>>)})}

GeoInputs == {PyNone} \cup {PyDict(d) : d \in GeoDicts}

InitGeom ==
    /\ geo_data \in GeoInputs
    /\ geo_result = PyNone
    /\ pc = "parse_geom.call"
    /\ raised = ""
    /\ ui_log = <<>>
    /\ IdleB /\ IdleR /\ IdleD

\* lines 17-35 of parsers.py
ParseGeom ==
    /\ pc = "parse_geom.call"
    /\ \E r \in {parse_geom(geo_data)} :
           /\ geo_result' = r
           /\ raised' = r.raised
    /\ pc' = "parse_geom.done"
    /\ UNCHANGED <<ui_log, geo_data, bvars, rvars, dvars>>

NextGeom == ParseGeom

SpecGeom == InitGeom /\ [][NextGeom]_vars

---------------------------------------------------------------------------
(* SpecRow: parse_row on raw rows of at most MaxRowKeys items against the   *)
(* bindings get_binding builds from at most MaxRowCols columns              *)

MaxRowCols == 1

MaxRowKeys == 2

\* the keys a raw row may carry, and the names a metadata column may have
RowFieldNames == <<"a", ":@computed_region_x", PK>>

RowColumnNames == {"a", ":@computed_region_x"}

RowTypeNames == {"text", "calendar_date", "point", "number", "money"}

RawValues ==
    { PyStr(""), PyStr("2014-10-13T10:05:00.000"), PyStr("x"), PyNone,
      PyDict(<<Item("type", PyStr("Point")),
               Item("coordinates",
                    PyList(<<PyNum("41.8657001"), PyNum("-87.761102")>>))>>),
      PyDict(<<Item("type", PyStr("Circle"))>>),
      PyDict(<<Item("url", PyStr("http://a.co"))>>) }

\* the rows whose keys are some of names[i..], in that order
RECURSIVE RowsOver(_, _)
RowsOver(names, i) ==
    IF i > Len(names) THEN {<<>>}
    ELSE LET rest == RowsOver(names, i + 1)
         IN  rest \cup {<<Item(names[i], x)>> \o r : x \in RawValues, r \in rest}

RawRows == {r \in RowsOver(RowFieldNames, 1) : Len(r) <= MaxRowKeys}

InitRow ==
    /\ columns \in SeqsUpTo([fieldName : RowColumnNames,
                             dataTypeName : RowTypeNames], MaxRowCols)
    /\ geo \in BOOLEAN
    /\ record_fields = get_binding(columns, geo).rf
    /\ col_i = Len(columns)
    /\ row \in RawRows
    /\ parsed = <<>>
    /\ row_i = 0
    /\ pc = "parse_row.loop"
    /\ raised = ""
    /\ ui_log = <<>>
    /\ IdleG /\ IdleD

\* lines 248-260: one item of the row
ParseItem ==
    /\ pc = "parse_row.loop"
    /\ row_i < Len(row)
    /\ \E st \in {ParseStep([parsed |-> parsed, raised |-> ""],
                              row[row_i + 1], MapperColumns(record_fields))} :
           /\ parsed' = st.parsed
           /\ raised' = st.raised
           /\ pc' = IF st.raised # "" THEN "parse_row.raised" ELSE pc
    /\ row_i' = row_i + 1
    /\ UNCHANGED <<ui_log, row, bvars, gvars, dvars>>

\* line 262
ParseReturn ==
    /\ pc = "parse_row.loop"
    /\ row_i = Len(row)
    /\ pc' = "parse_row.returned"
    /\ UNCHANGED <<raised, ui_log, bvars, rvars, gvars, dvars>>

NextRow == ParseItem \/ ParseReturn

SpecRow == InitRow /\ [][NextRow]_vars

---------------------------------------------------------------------------
(* cli.py: get_connection, get_row_count, get_dataset, main (insert)       *)
(* Spec: one run of "socrata2sql insert" against a dataset of at most      *)
(* MaxRows rows, fetched in pages of at most MaxPageSize rows              *)

MaxRows == 4

MaxPageSize == 2

MaxCount == 1

Col(name, type) == [fieldName |-> name, dataTypeName |-> type]

\* the metadata['columns'] of the datasets a run is tried on
DriverMetadata ==
    { <<Col("when", "calendar_date"), Col("loc", "point")>>,
      <<Col("loc", "location"), Col(":@computed_region_x", "number")>>,
      <<Col("when", "text")>>,
      <<Col(PK, "number")>> }

\* the rows their pages are made of
DriverRows ==
    { <<Item("when", PyStr("2014-10-13T10:05:00")),
        Item("loc", PyDict(<<Item("type", PyStr("Point")),
                             Item("coordinates",
                                  PyList(<<PyNum("41.8657001"),
                                           PyNum("-87.761102")>>))>>)),
        Item(":@computed_region_x", PyStr("7"))>>,
      <<Item("when", PyStr("10/13/2014"))>>,
      <<Item("when", PyStr("")),
        Item("loc", PyDict(<<Item("type", PyStr("Polygon"))>>))>> }

\* what the database answers to the PostGIS probe: an exception class or ""
ProbeOutcomes == {"", "OperationalError", "ProgrammingError"}

\* what Binding.__table__.create(engine) raises: the exception class ("" for
\* none) and whether its text holds 'already exists'
CreateOutcomes ==
    { [exc |-> "", exists |-> FALSE],
      [exc |-> "ProgrammingError", exists |-> TRUE],
      [exc |-> "ProgrammingError", exists |-> FALSE],
      [exc |-> "OperationalError", exists |-> TRUE],
      [exc |-> "OperationalError", exists |-> FALSE] }

\* -d given; -d absent and no file of the default name; -d absent and the file
\* is there
DbChoices == {"given", "default", "default_exists"}

GisQuery == "SELECT PostGIS_version();"

AlreadyExistsMsg ==
    "Destination table already exists. Specify a new table name with -t."

CreationErrorMsg == "Error creating destination table: "

DefaultDbExistsMsg ==
    "t.sqlite already exists. Specify a unique database name with -d. "
    \o "Example: -d sqlite:///unique_name.sqlite"

SuccessMsg(n) ==
    "Successfully imported " \o ToString(n) \o " rows from \"t\"."

Call(op) == [op |-> op]

\* socrata_client.get(dataset_id, limit=limit, offset=offset)
ClientGet(rows, limit, offset) ==
    SubSeq(rows, offset + 1,
           IF offset + limit < Len(rows) THEN offset + limit ELSE Len(rows))

\* lines 297-299: to_insert for a page, or the exception of the first row
\* that fails
RECURSIVE BuildBatch(_, _, _, _)
BatchWith(page, i, rf, to_insert, r) ==
    IF r.raised # "" THEN [to_insert |-> to_insert, raised |-> r.raised]
    ELSE BuildBatch(page, i + 1, rf, Append(to_insert, r.parsed))

BuildBatch(page, i, rf, to_insert) ==
    IF i > Len(page) THEN [to_insert |-> to_insert, raised |-> ""]
    ELSE BatchWith(page, i, rf, to_insert, parse_row(page[i], rf))

\* AddAll that adds the rows coerced before the failing one
AddAllKeepsPartial(session, b) ==
    [session |-> session \o b.to_insert, raised |-> b.raised,
     n |-> Len(b.to_insert)]

\* line 301: session.add_all(to_insert), not reached when a row failed
AddAll(session, b) ==
    IF b.raised # ""
    THEN [session |-> session, raised |-> b.raised, n |-> 0]
    ELSE [session |-> session \o b.to_insert, raised |-> "",
          n |-> Len(b.to_insert)]

\* lines 297-301: the body of the page loop on the session's pending objects
StagePage(session, page, rf) == AddAll(session, BuildBatch(page, 1, rf, <<>>))

\* get_dataset's test of line 209, with <= for <
MorePagesAfterOffByOne(more, n, size) == IF n <= size THEN FALSE ELSE more

\* lines 209-210: more_pages after a page of n rows
MorePagesAfter(more, n, size) == IF n < size THEN FALSE ELSE more

\* line 206
PageOffset(size, num) == size * num

Init ==
    /\ pc = "main.get_metadata"
    /\ raised = ""
    /\ ui_log = <<>>
    /\ columns \in DriverMetadata
    /\ geo = FALSE
    /\ record_fields = <<>>
    /\ col_i = 0
    /\ remote \in SeqsUpTo(DriverRows, MaxRows)
    /\ page_size \in 1..MaxPageSize
    /\ page_num = 0
    /\ more_pages = TRUE
    /\ api_data = <<>>
    /\ num_rows = 0
    /\ session_new = <<>>
    /\ committed = <<>>
    /\ calls = <<>>
    /\ IdleR /\ IdleG

\* line 276
GetMetadata ==
    /\ pc = "main.get_metadata"
    /\ calls' = Append(calls, Call("get_metadata"))
    /\ pc' = "main.get_connection"
    /\ UNCHANGED <<raised, ui_log, bvars, rvars, gvars, remote, page_size,
                   page_num, more_pages, api_data, num_rows, session_new,
                   committed>>

\* line 278, get_connection (lines 152-185) with default_db_str, and the
\* except clause of line 317 for the CLIError default_db_str raises
GetConnection ==
    /\ pc = "main.get_connection"
    /\ \E db \in DbChoices, probe \in ProbeOutcomes :
        IF db = "default_exists"
        THEN /\ ui_log' = Append(ui_log, DefaultDbExistsMsg)
             /\ calls' = Append(calls, [op |-> "ui.error",
                                        msg |-> DefaultDbExistsMsg])
             /\ pc' = "main.cli_error"
             /\ UNCHANGED <<raised, geo>>
        ELSE LET log == calls \o <<[op |-> "session.execute", q |-> GisQuery,
                                    exc |-> probe],
                                   [op |-> "session.commit",
                                    by |-> "get_connection"]>>
                 hdr == ui_log \o
                        (IF db = "given" THEN <<"Connecting to database">>
                         ELSE <<"Connecting to database",
                                "Using default SQLite database \"sqlite:///t.sqlite\".">>)
             IN  /\ calls' = log
                 /\ IF probe = ""
                    THEN /\ geo' = TRUE
                         /\ ui_log' = Append(hdr,
                              "PostGIS is installed. Geometries on Socrata will be imported as PostGIS geoms.")
                         /\ pc' = "main.get_binding"
                         /\ UNCHANGED raised
                    ELSE IF probe = "OperationalError"
                    THEN /\ geo' = FALSE
                         /\ ui_log' = Append(hdr,
                              "Query \"" \o GisQuery
                              \o "\" failed. Geometry columns will be skipped.")
                         /\ pc' = "main.get_binding"
                         /\ UNCHANGED raised
                    ELSE /\ raised' = probe
                         /\ ui_log' = hdr
                         /\ pc' = "main.crashed"
                         /\ UNCHANGED geo
    /\ UNCHANGED <<columns, record_fields, col_i, rvars, gvars, remote,
                   page_size, page_num, more_pages, api_data, num_rows,
                   session_new, committed>>

\* lines 279-281, get_binding (lines 112-149): the declarative class of line
\* 149 is not made without a primary-key column
GetBinding ==
    /\ pc = "main.get_binding"
    /\ \E st \in {get_binding(columns, geo)} :
           /\ record_fields' = st.rf
           /\ ui_log' = ui_log \o st.ui
           /\ IF \E i \in 1..Len(MapperColumns(st.rf)) :
                    MapperColumns(st.rf)[i].v.primary_key
              THEN pc' = "main.create" /\ UNCHANGED raised
              ELSE pc' = "main.crashed" /\ raised' = "ArgumentError"
    /\ col_i' = Len(columns)
    /\ UNCHANGED <<columns, geo, rvars, gvars, dvars>>

\* lines 283-291, and the except clause of line 317
CreateTable ==
    /\ pc = "main.create"
    /\ \E out \in CreateOutcomes :
        /\ IF out.exc = ""
           THEN /\ calls' = Append(calls, [op |-> "create_table", out |-> out])
                /\ pc' = "main.count"
                /\ UNCHANGED <<raised, ui_log>>
           ELSE IF out.exc = "ProgrammingError"
           THEN LET msg == IF out.exists THEN AlreadyExistsMsg
                           ELSE CreationErrorMsg
                IN  /\ calls' = calls \o <<[op |-> "create_table", out |-> out],
                                           [op |-> "ui.error", msg |-> msg]>>
                    /\ ui_log' = Append(ui_log, msg)
                    /\ pc' = "main.cli_error"
                    /\ UNCHANGED raised
           ELSE /\ calls' = Append(calls, [op |-> "create_table", out |-> out])
                /\ raised' = out.exc
                /\ pc' = "main.crashed"
                /\ UNCHANGED ui_log
    /\ UNCHANGED <<bvars, rvars, gvars, remote, page_size, page_num,
                   more_pages, api_data, num_rows, session_new, committed>>

\* lines 293-294, get_row_count (lines 188-194): the count the API gives is
\* not tied to the rows the pages will hold
GetRowCount ==
    /\ pc = "main.count"
    /\ \E n \in 0..MaxCount :
        /\ num_rows' = n
        /\ calls' = Append(calls, [op |-> "get_row_count", n |-> n])
    /\ pc' = "main.for"
    /\ UNCHANGED <<raised, ui_log, bvars, rvars, gvars, remote, page_size,
                   page_num, more_pages, api_data, session_new, committed>>

\* FetchPage that stops asking once the offset reaches the row count
FetchPageUntilCount ==
    /\ pc = "main.for"
    /\ more_pages
    /\ \E page \in {ClientGet(remote, page_size,
                              PageOffset(page_size, page_num))} :
           /\ api_data' = page
           /\ calls' = Append(calls,
                  [op |-> "get", limit |-> page_size,
                   offset |-> PageOffset(page_size, page_num),
                   returned |-> Len(page)])
           /\ more_pages' = (PageOffset(page_size, page_num + 1) < num_rows)
    /\ page_num' = page_num + 1
    /\ pc' = "main.page"
    /\ UNCHANGED <<raised, ui_log, bvars, rvars, gvars, remote, page_size,
                   num_rows, session_new, committed>>

\* get_dataset, lines 202-213: the generator is resumed and yields a page
FetchPage ==
    /\ pc = "main.for"
    /\ more_pages
    /\ \E page \in {ClientGet(remote, page_size,
                                PageOffset(page_size, page_num))} :
           /\ api_data' = page
           /\ calls' = Append(calls,
                  [op |-> "get", limit |-> page_size,
                   offset |-> PageOffset(page_size, page_num),
                   returned |-> Len(page)])
           /\ more_pages' = MorePagesAfter(more_pages, Len(page), page_size)
    /\ page_num' = page_num + 1
    /\ pc' = "main.page"
    /\ UNCHANGED <<raised, ui_log, bvars, rvars, gvars, remote, page_size,
                   num_rows, session_new, committed>>

\* lines 297-302: the page is coerced and staged, or an exception of
\* parse_row leaves main
ProcessPage ==
    /\ pc = "main.page"
    /\ \E r \in {StagePage(session_new, api_data, record_fields)} :
           /\ session_new' = r.session
           /\ raised' = r.raised
           /\ IF r.raised # ""
              THEN pc' = "main.crashed" /\ UNCHANGED calls
              ELSE /\ pc' = "main.for"
                   /\ calls' = calls \o <<[op |-> "session.add_all", n |-> r.n],
                                          [op |-> "bar.next", n |-> r.n]>>
    /\ UNCHANGED <<ui_log, bvars, rvars, gvars, remote, page_size, page_num,
                   more_pages, api_data, num_rows, committed>>

\* lines 304-316: the generator is exhausted
Finish ==
    /\ pc = "main.for"
    /\ ~more_pages
    /\ committed' = session_new
    /\ session_new' = <<>>
    /\ calls' = calls \o <<[op |-> "session.commit", by |-> "main"],
                           [op |-> "ui.success", msg |-> SuccessMsg(num_rows)],
                           Call("client.close")>>
    /\ ui_log' = ui_log \o
            <<"Committing rows (this can take a bit for large datasets).",
              SuccessMsg(num_rows)>>
    /\ pc' = "main.done"
    /\ UNCHANGED <<raised, bvars, rvars, gvars, remote, page_size, page_num,
                   more_pages, api_data, num_rows>>

Next ==
    \/ GetMetadata
    \/ GetConnection
    \/ GetBinding
    \/ CreateTable
    \/ GetRowCount
    \/ FetchPage
    \/ ProcessPage
    \/ Finish

Spec == Init /\ [][Next]_vars

---------------------------------------------------------------------------
(* Claims about get_binding *)

\* the mapping table of the TypeMapper as documented
TypeMapperTable(t) ==
    CASE t \in {"url", "text"} -> "Text"
      [] t = "checkbox" -> "Boolean"
      [] t = "number" -> "Numeric"
      [] t = "calendar_date" -> "DateTime"
      [] t \in {"point", "location"} -> GeometryPoint
      [] OTHER -> "unsupported"

\* the three skip rules, as documented
IsSkipped(c, g) ==
    \/ c.dataTypeName \in {"point", "location"} /\ ~g
    \/ StartsWith(c.fieldName, ComputedPrefix)
    \/ TypeMapperTable(c.dataTypeName) = "unsupported"

\* positions of the remote columns that are not skipped
IncludedAt(cols, g) == {j \in 1..Len(cols) : ~IsSkipped(cols[j], g)}

\* C2: the Binding get_binding returns holds no geometry column when geometry
\* is unsupported, no column with the computed prefix and no column of an
\* unmapped type: every entry other than the synthetic key is the entry of a
\* remote column that no rule skips (the last one of that name) and carries
\* the type the mapping table gives for it; every column no rule skips has an
\* entry; and no skip raises.
C2_BindingHoldsOnlyMappedColumns ==
    pc = "get_binding.returned" =>
        LET mc == MapperColumns(record_fields)
            inc == IncludedAt(columns, geo)
        IN  /\ raised = ""
            /\ \A i \in 1..Len(mc) :
                /\ ~geo => mc[i].v.type # GeometryPoint
                /\ ~StartsWith(mc[i].k, ComputedPrefix)
                /\ \/ /\ mc[i].k = PK
                      /\ mc[i].v = Column("Integer", TRUE)
                      /\ \A j \in inc : columns[j].fieldName # PK
                   \/ \E j \in inc :
                        /\ columns[j].fieldName = mc[i].k
                        /\ \A h \in inc :
                             columns[h].fieldName = mc[i].k => h <= j
                        /\ mc[i].v =
                             Column(TypeMapperTable(columns[j].dataTypeName),
                                    FALSE)
            /\ \A j \in inc : DictHas(mc, columns[j].fieldName)

\* a returned Binding built with geometry unsupported from a geometry column
\* and a computed column of a mappable type, both left out
C2_Witness ==
    /\ pc = "get_binding.returned"
    /\ geo = FALSE
    /\ \E j \in 1..Len(columns) : columns[j].dataTypeName = "point"
    /\ \E j \in 1..Len(columns) :
        /\ StartsWith(columns[j].fieldName, ComputedPrefix)
        /\ columns[j].dataTypeName = "text"
    /\ Len(MapperColumns(record_fields)) = 1

\* the names of the remote columns no rule skips, in remote order, each once
RECURSIVE IncludedNames(_, _, _)
IncludedNames(cols, g, i) ==
    IF i = 0 THEN <<>>
    ELSE LET before == IncludedNames(cols, g, i - 1)
             n == cols[i].fieldName
         IN  IF IsSkipped(cols[i], g) \/ n = PK
                \/ \E h \in 1..Len(before) : before[h] = n
             THEN before
             ELSE Append(before, n)

\* C3: the Binding get_binding returns has the synthetic integer primary-key
\* column as its first entry, once and still a primary key, followed by the
\* included remote columns in remote order, also when a remote column is
\* named _pk_ or a fieldName repeats.
C3_SyntheticKeyFirstAndIntact ==
    pc = "get_binding.returned" =>
        LET mc == MapperColumns(record_fields)
        IN  /\ Len(mc) >= 1
            /\ mc[1] = Item(PK, Column("Integer", TRUE))
            /\ Cardinality({i \in 1..Len(mc) : mc[i].k = PK}) = 1
            /\ Tail(DictKeySeq(mc)) = IncludedNames(columns, geo, Len(columns))

---------------------------------------------------------------------------
(* Claims about parse_row *)

\* C4: at every point of parse_row the typed row holds no key the Binding
\* lacks: a remote column that get_binding left out (geometry without
\* support, computed, unmapped type) is never in it, whatever the raw row
\* carries for it, and an exception leaves parse_row only on a bound column.
C4_NoUnboundKeyInTypedRow ==
    LET mc == MapperColumns(record_fields)
    IN  /\ DictKeys(parsed) \subseteq DictKeys(mc)
        /\ \A j \in 1..Len(columns) :
              (/\ IsSkipped(columns[j], geo)
               /\ \A h \in IncludedAt(columns, geo) :
                     columns[h].fieldName # columns[j].fieldName)
              => ~DictHas(parsed, columns[j].fieldName)
        /\ pc = "parse_row.raised" => DictHas(mc, row[row_i].k)

\* parse_row returned for a raw row that carries a value for a column that
\* get_binding left out, next to a column it kept
C4_Witness ==
    /\ pc = "parse_row.returned"
    /\ \E j \in 1..Len(columns) :
        /\ IsSkipped(columns[j], geo)
        /\ DictHas(row, columns[j].fieldName)
        /\ DictGet(row, columns[j].fieldName).kind = "dict"
    /\ Len(row) = 2

\* C5 as stated: the key set of the typed row parse_row returns is the
\* Binding's key set minus the synthetic primary key.
C5_Original_KeysAreBindingMinusPk ==
    pc = "parse_row.returned" =>
        DictKeys(parsed) = DictKeys(MapperColumns(record_fields)) \ {PK}

\* C5 as amended: the key set of the typed row parse_row returns is exactly
\* the set of the raw row's keys that are columns of the Binding, in the raw
\* row's order: a bound column the raw row does not carry is absent, and the
\* synthetic primary key is present exactly when the raw row carries it.
C5_KeysAreRowKeysInBinding ==
    pc = "parse_row.returned" =>
        LET mc == MapperColumns(record_fields)
        IN  /\ DictKeys(parsed) = DictKeys(row) \cap DictKeys(mc)
            /\ DictKeySeq(parsed) =
                 SelectSeq(DictKeySeq(row), LAMBDA n : DictHas(mc, n))

\* parse_row returned a typed row without a bound column, which the raw row
\* did not carry, and with the null the raw row carried for the key
C5_Witness ==
    /\ pc = "parse_row.returned"
    /\ DictHas(MapperColumns(record_fields), "a")
    /\ ~DictHas(row, "a")
    /\ DictHas(row, PK) /\ DictGet(row, PK).kind = "None"
    /\ DictKeys(parsed) = {PK}

---------------------------------------------------------------------------
(* Claims about parse_geom *)

HasKey(g, key) == g.kind = "dict" /\ DictHas(g.v, key)

\* C9: parse_geom returns null for null; the literal with the latitude in
\* the first slot for an input with latitude and longitude; null for an
\* input with human_address and no latitude; the literal of the two
\* coordinates for an input of type Point; and for every other input it
\* fails with the unsupported-geometry error, which names the type.
C9_ParseGeomByCase ==
    pc = "parse_geom.done" =>
        LET g == geo_data
            r == geo_result
        IN  IF g.kind = "None"
            THEN r = [raised |-> "", value |-> PyNone]
            ELSE IF HasKey(g, "latitude") /\ HasKey(g, "longitude")
            THEN r = [raised |-> "",
                      value |-> PyStr("SRID=4326;POINT("
                                      \o DictGet(g.v, "latitude").v \o " "
                                      \o DictGet(g.v, "longitude").v \o ")")]
            ELSE IF HasKey(g, "human_address") /\ ~HasKey(g, "latitude")
            THEN r = [raised |-> "", value |-> PyNone]
            ELSE IF HasKey(g, "type") /\ DictGet(g.v, "type").v = "Point"
            THEN (HasKey(g, "coordinates")
                  /\ Len(DictGet(g.v, "coordinates").v) = 2)
                 => r = [raised |-> "",
                         value |-> PyStr("SRID=4326;POINT("
                             \o DictGet(g.v, "coordinates").v[1].v \o " "
                             \o DictGet(g.v, "coordinates").v[2].v \o ")")]
            ELSE /\ r.raised = "NotImplementedError"
                 /\ HasKey(g, "type")
                 /\ r.msg = DictGet(g.v, "type").v \o " are not yet supported"

---------------------------------------------------------------------------
(* Claims about the insert run *)

Last(q) == q[Len(q)]

OpsOf(op) == SelectSeq(calls, LAMBDA c : c.op = op)

Gets == OpsOf("get")

HasCall(c) == \E i \in 1..Len(calls) : calls[i] = c

\* the run was left by an exception raised while a page was coerced
CrashedInPage ==
    pc = "main.crashed" /\ Len(calls) > 0 /\ Last(calls).op = "get"

\* C1: the k-th request of get_dataset (k from 0) has limit page_size and
\* offset page_size * k; every request but the last returned a page of
\* exactly page_size rows; after a page the generator goes on exactly when
\* that page had page_size rows; and when the generator is exhausted the
\* last page had fewer than page_size rows.
C1_PagesUntilShortPage ==
    /\ \A k \in 1..Len(Gets) :
        /\ Gets[k].limit = page_size
        /\ Gets[k].offset = page_size * (k - 1)
        /\ k < Len(Gets) => Gets[k].returned = page_size
    /\ (pc \in {"main.page", "main.for"} /\ Len(Gets) > 0)
        => (more_pages <=> Last(Gets).returned = page_size)
    /\ pc = "main.done"
        => Len(Gets) >= 1 /\ Last(Gets).returned < page_size

\* a finished run whose full page was followed by a request that returned an
\* empty page
C1_Witness ==
    /\ pc = "main.done"
    /\ Len(Gets) >= 2
    /\ Gets[1].returned = page_size
    /\ Last(Gets).returned = 0

\* the typed rows of the first n rows of the dataset
TypedRows(n) == BuildBatch(SubSeq(remote, 1, n), 1, record_fields, <<>>)

C6_StateOnAbort ==
    CrashedInPage =>
        /\ raised # ""
        /\ Len(OpsOf("session.add_all")) = Len(Gets) - 1
        /\ TypedRows(page_size * (Len(Gets) - 1)).raised = ""
        /\ session_new = TypedRows(page_size * (Len(Gets) - 1)).to_insert
        /\ committed = <<>>
        /\ ~HasCall([op |-> "session.commit", by |-> "main"])
        /\ Len(OpsOf("ui.success")) = 0

\* C6: when coercing a row of page N fails the run aborts: no row of page N
\* is staged and the rows staged from the pages before it stay as they were;
\* the final commit is not requested and no success is reported; and nothing
\* is done after the abort, so no later page is requested.
C6_AbortOnCoercionFailure ==
    /\ []C6_StateOnAbort
    /\ [][/\ pc # "main.crashed"
          /\ (pc = "main.page" /\ pc' = "main.crashed")
                => (session_new' = session_new /\ calls' = calls
                    /\ committed' = committed)]_vars

\* a run that staged a page and aborted on a later page whose first row was
\* coerced and whose second was not
C6_Witness ==
    /\ CrashedInPage
    /\ Len(Gets) >= 2
    /\ Len(session_new) >= 1
    /\ Len(api_data) = 2
    /\ parse_row(api_data[1], record_fields).raised = ""
    /\ parse_row(api_data[2], record_fields).raised # ""

\* C7: when table creation fails the run ends there with the matching error:
\* "already exists" when the destination has an object of that name, the
\* creation error otherwise; nothing is called after the failed creation.
C7_CreationFailureReported ==
    \A i \in 1..Len(calls) :
        (calls[i].op = "create_table" /\ calls[i].out.exc # "")
        => /\ pc = "main.cli_error"
           /\ Len(calls) = i + 1
           /\ calls[i + 1] =
                [op |-> "ui.error",
                 msg |-> IF calls[i].out.exists THEN AlreadyExistsMsg
                         ELSE CreationErrorMsg]

\* C8: whatever the failure of the PostGIS probe, get_connection returns
\* geo_enabled = false and raises nothing: the run goes on to build a
\* binding without geometry columns.
C8_ProbeFailureMeansNoGeometry ==
    \A i \in 1..Len(calls) :
        (calls[i].op = "session.execute" /\ calls[i].exc # "")
        => /\ geo = FALSE
           /\ ~(pc = "main.crashed" /\ raised = calls[i].exc)
           /\ \A j \in 1..Len(MapperColumns(record_fields)) :
                MapperColumns(record_fields)[j].v.type # GeometryPoint

\* the calls of the page loop from page k on, for a dataset of n rows
RECURSIVE PageCalls(_, _)
PageCalls(k, n) ==
    LET len == IF n - page_size * k >= page_size THEN page_size
               ELSE n - page_size * k
        these == <<[op |-> "get", limit |-> page_size,
                    offset |-> page_size * k, returned |-> len],
                   [op |-> "session.add_all", n |-> len],
                   [op |-> "bar.next", n |-> len]>>
    IN  IF len < page_size THEN these ELSE these \o PageCalls(k + 1, n)

\* C10: a successful run has built the binding and has called, in this
\* order: table creation, the row count, then for each page its request and
\* the staging of its rows, up to and including the first short page, then
\* the final commit once, then the success report; the number of requests
\* depends on the pages alone, not on the row count.
C10_CallOrderOfSuccessfulRun ==
    pc = "main.done" =>
        /\ record_fields = get_binding(columns, geo).rf
        /\ Len(calls) >= 5
        /\ calls[1] = Call("get_metadata")
        /\ calls[2].op = "session.execute"
        /\ calls[3] = [op |-> "session.commit", by |-> "get_connection"]
        /\ SubSeq(calls, 4, Len(calls)) =
             <<[op |-> "create_table", out |-> [exc |-> "", exists |-> FALSE]],
               [op |-> "get_row_count", n |-> num_rows]>>
             \o PageCalls(0, Len(remote))
             \o <<[op |-> "session.commit", by |-> "main"],
                  [op |-> "ui.success", msg |-> SuccessMsg(num_rows)],
                  Call("client.close")>>
        /\ committed = TypedRows(Len(remote)).to_insert
        /\ session_new = <<>>

\* a successful run of several pages whose row count was not the number of
\* rows the pages held
C10_Witness ==
    /\ pc = "main.done"
    /\ Len(Gets) >= 2
    /\ num_rows < Len(remote)
    /\ Len(committed) = Len(remote)

====
